---------------------------- MODULE Spec2Model ----------------------------
(***************************************************************************)
(* A model of src/main.py: the payments assistant bot.                     *)
(*                                                                         *)
(*   DateHandler     the clock, relative date tokens, date ranges          *)
(*   PaymentHandler  prepare_payment_data, add_payment, query_payments,    *)
(*                   format_payment_response                               *)
(*   Bot             handle_command, handle_message, start_command         *)
(*                                                                         *)
(* Conventions.                                                            *)
(*  - An instant is a whole number of minutes since 1970-01-01T00:00Z.     *)
(*  - An aware datetime is [wall, off]: its wall-clock reading in minutes  *)
(*    and the utcoffset of its tzinfo; the instant it denotes is           *)
(*    wall - off.                                                          *)
(*  - A dict is a function whose DOMAIN is the set of its keys.            *)
(*  - A string the code builds is the sequence of the pieces it is built   *)
(*    from: the literals of the source, the values put in, and for a       *)
(*    formatted number or date its characters.  A text of several lines    *)
(*    is the sequence of its lines (the strings between "\n").  A          *)
(*    pictograph in a literal is written as its name between colons        *)
(*    (":x:", ":moneybag:").                                               *)
(*  - A date token (params['date']) is the sequence of its characters, so  *)
(*    that lower() and strip() are computed.                               *)
(*  - A value of the translator's JSON that the code formats as a number   *)
(*    carries its Python type: [type, int, str].                           *)
(***************************************************************************)
EXTENDS Integers, Sequences, FiniteSets, TLC

VARIABLES now, store, last

vars == <<now, store, last>>

(***************************************************************************)
(* Program constants                                                       *)
(***************************************************************************)
MinutesPerDay == 1440
\* utcoffset of America/Bogota as datetime.now(tz) gives it: -05:00
BogotaOffset == -300
\* utcoffset of the pytz zone object itself when it is passed as tzinfo=
\* without localize(): the zone's first entry, local mean time -04:56
LmtOffset == -296
WeekDays == 7
MonthDays == 30
YearDays == 365
RecentLimit == 50

(***************************************************************************)
(* Bounds of the model                                                     *)
(***************************************************************************)
\* 2024-02-29 23:50 in Bogota (2024-03-01T04:50Z)
FirstNow == 28487810
\* how far the clock may run on from FirstNow, in minutes
MaxElapsed == 1440
\* the step of the clock when messages are handled, in minutes
TickMinutes == 1440
\* how far the clock may run on, minute by minute, when dates are resolved
MaxDateElapsed == 20
\* documents in the store, all partitions together
MaxDocs == 2
\* records in a sequence handed to format_payment_response
MaxListed == 3

(***************************************************************************)
(* Python values                                                           *)
(***************************************************************************)
IntVal(n) == [type |-> "int", int |-> n, str |-> ""]
StrVal(s) == [type |-> "str", int |-> 0, str |-> s]

\* d.get(k, default)
Get(d, k, default) == IF k \in DOMAIN d THEN d[k] ELSE default

EmptyDict == [k \in {} |-> ""]

\* None, or a value
None == [some |-> FALSE, val |-> <<>>]
Some(v) == [some |-> TRUE, val |-> v]

\* x if x is not None, else y
OrElse(x, y) == IF x.some THEN x.val ELSE y

(***************************************************************************)
(* str.lower() and str.strip() on a sequence of characters                 *)
(***************************************************************************)
UpperChars ==
  <<"A","B","C","D","E","F","G","H","I","J","K","L","M","N","Ñ","O","P",
    "Q","R","S","T","U","V","W","X","Y","Z">>
LowerChars ==
  <<"a","b","c","d","e","f","g","h","i","j","k","l","m","n","ñ","o","p",
    "q","r","s","t","u","v","w","x","y","z">>
Whitespace == {" ", "\t", "\n"}

LowerChar(c) ==
  IF \E i \in DOMAIN UpperChars : UpperChars[i] = c
  THEN LowerChars[CHOOSE i \in DOMAIN UpperChars : UpperChars[i] = c]
  ELSE c

Lower(s) == [i \in DOMAIN s |-> LowerChar(s[i])]

RECURSIVE LStrip(_)
LStrip(s) ==
  IF s # <<>> /\ Head(s) \in Whitespace THEN LStrip(Tail(s)) ELSE s

RECURSIVE RStrip(_)
RStrip(s) ==
  IF s # <<>> /\ s[Len(s)] \in Whitespace
  THEN RStrip(SubSeq(s, 1, Len(s) - 1))
  ELSE s

Strip(s) == RStrip(LStrip(s))

(***************************************************************************)
(* datetime                                                                *)
(***************************************************************************)
Instant(dt) == dt.wall - dt.off

\* dt + timedelta(days=n): wall-clock arithmetic, the tzinfo is kept
PlusDays(dt, n) == [wall |-> dt.wall + n * MinutesPerDay, off |-> dt.off]

\* dt.date(), as the number of days since 1970-01-01
DateOf(dt) == dt.wall \div MinutesPerDay

\* datetime.combine(d, datetime.min.time(), tzinfo=self.tz)
CombineMin(d) == [wall |-> d * MinutesPerDay, off |-> LmtOffset]

\* datetime.combine(d, datetime.max.time(), tzinfo=self.tz): 23:59:59.999999,
\* which for whole-minute instants bounds exactly the day's last minute
CombineMax(d) == [wall |-> d * MinutesPerDay + (MinutesPerDay - 1), off |-> LmtOffset]

\* the proleptic Gregorian date of a day number, <<year, month, day>>,
\* by eras of 400 years: doe, yoe, doy are the day of the era, the year of
\* the era and the day of the year (counted from 1 March), mp the month
\* (counted from March)
CivilOfMonth(y, mp, doy) ==
  <<y + (IF mp < 10 THEN 0 ELSE 1),
    IF mp < 10 THEN mp + 3 ELSE mp - 9,
    doy - (153 * mp + 2) \div 5 + 1>>

CivilOfDoy(y, doy) == CivilOfMonth(y, (5 * doy + 2) \div 153, doy)

CivilOfYoe(era, doe, yoe) ==
  CivilOfDoy(yoe + era * 400, doe - (365 * yoe + yoe \div 4 - yoe \div 100))

CivilOfDoe(era, doe) ==
  CivilOfYoe(era, doe,
             (doe - doe \div 1460 + doe \div 36524 - doe \div 146096) \div 365)

CivilOfShifted(s) == CivilOfDoe(s \div 146097, s % 146097)

CivilFromDays(z) == CivilOfShifted(z + 719468)

DigitChars == <<"0","1","2","3","4","5","6","7","8","9">>
Digit(d) == DigitChars[d + 1]

\* str(n) for n >= 0, as its characters
RECURSIVE Digits(_)
Digits(n) == IF n < 10 THEN <<Digit(n)>> ELSE Append(Digits(n \div 10), Digit(n % 10))

\* %m, %d: two digits
Pad2(n) == <<Digit(n \div 10), Digit(n % 10)>>

\* %Y: four digits at least
Pad4(n) ==
  IF n >= 10000 THEN Digits(n)
  ELSE <<Digit(n \div 1000), Digit((n \div 100) % 10), Digit((n \div 10) % 10), Digit(n % 10)>>

IsoDate(ymd) == Pad4(ymd[1]) \o <<"-">> \o Pad2(ymd[2]) \o <<"-">> \o Pad2(ymd[3])

\* dt.strftime('%Y-%m-%d')
Strftime(dt) == IsoDate(CivilFromDays(DateOf(dt)))

(***************************************************************************)
(* DateHandler                                                             *)
(***************************************************************************)
\* get_current_date, at instant t of the clock
get_current_date(t) == [wall |-> t + BogotaOffset, off |-> BogotaOffset]

Hoy == <<"h","o","y">>
Ayer == <<"a","y","e","r">>
Anteayer == <<"a","n","t","e","a","y","e","r">>
Manana == <<"m","a","ñ","a","n","a">>

\* date_mappings.get(key)
DateMappingsGet(key, current) ==
  IF key = Hoy THEN Some(current)
  ELSE IF key = Ayer THEN Some(PlusDays(current, -1))
  ELSE IF key = Anteayer THEN Some(PlusDays(current, -2))
  ELSE IF key = Manana THEN Some(PlusDays(current, 1))
  ELSE None

\* parse_relative_date without lower(): the keys are matched case-sensitively
ParseCaseSensitive(date_str, t) ==
  DateMappingsGet(Strip(date_str), get_current_date(t))

\* parse_relative_date: Some(datetime), or None
parse_relative_date(date_str, t) ==
  DateMappingsGet(Strip(Lower(date_str)), get_current_date(t))

\* the bounds of the civil day d as get_date_range builds them
DayBounds(d) == <<CombineMin(d), CombineMax(d)>>

\* ranges.get(time_frame, (now - timedelta(days=30), now))
RangesGet(time_frame, current) ==
  CASE time_frame = "today" -> DayBounds(DateOf(current))
    [] time_frame = "yesterday" -> DayBounds(DateOf(PlusDays(current, -1)))
    [] time_frame = "week" -> <<PlusDays(current, -WeekDays), current>>
    [] time_frame = "month" -> <<PlusDays(current, -MonthDays), current>>
    [] time_frame = "year" -> <<PlusDays(current, -YearDays), current>>
    [] OTHER -> <<PlusDays(current, -MonthDays), current>>

\* get_date_range: <<start, end>>
get_date_range(time_frame, t) == RangesGet(time_frame, get_current_date(t))

(***************************************************************************)
(* Text: a sequence of lines                                               *)
(***************************************************************************)
\* text + s, for a string s with no line break
AddStr(text, s) == [text EXCEPT ![Len(text)] = @ \o s]

\* text + "\n"
AddNewline(text) == Append(text, <<>>)

Pad3(n) == <<Digit(n \div 100), Digit((n \div 10) % 10), Digit(n % 10)>>

RECURSIVE GroupDigits(_)
GroupDigits(n) ==
  IF n < 1000 THEN Digits(n)
  ELSE GroupDigits(n \div 1000) \o <<",">> \o Pad3(n % 1000)

\* format(n, ','), for an int
GroupedInt(n) == IF n < 0 THEN <<"-">> \o GroupDigits(-n) ELSE GroupDigits(n)

\* f"{v:,}": grouped thousands for an int; a str has no ',' format
FormatComma(v) ==
  IF v.type = "int"
  THEN [exc |-> "", str |-> GroupedInt(v.int)]
  ELSE [exc |-> "ValueError", str |-> <<>>]

(***************************************************************************)
(* The store: users/{user_id}/payments, a set of documents per user.       *)
(* A document is [id, data]; data is the dict written, its timestamp kept  *)
(* as the instant the datetime denotes.                                    *)
(***************************************************************************)
NoFault == [raised |-> FALSE, msg |-> <<>>]

\* str(user_id)
UserKey(user_id) == Digits(user_id)

DocData(payment_data) ==
  [payment_data EXCEPT !["timestamp"] = Instant(payment_data["timestamp"])]

\* payment_ref.set(payment_data): all or nothing
StoreSet(st, user_id, id, payment_data, fault) ==
  IF fault.raised
  THEN [exc |-> "StoreError", store |-> st]
  ELSE [exc |-> "",
        store |-> [st EXCEPT ![UserKey(user_id)] =
                     @ \cup {[id |-> id, data |-> DocData(payment_data)]}]]

\* base_query: the collection, no predicate, no order, no limit
BaseQuery == [eq |-> <<>>, ge |-> <<>>, le |-> <<>>, order |-> <<>>, limit |-> <<>>]

WhereRecipientEq(q, v) == [q EXCEPT !.eq = Append(@, v)]
WhereTimestampGe(q, dt) == [q EXCEPT !.ge = Append(@, Instant(dt))]
WhereTimestampLe(q, dt) == [q EXCEPT !.le = Append(@, Instant(dt))]
OrderByTimestampDesc(q) == [q EXCEPT !.order = Append(@, "timestamp DESCENDING")]
Limit(q, n) == [q EXCEPT !.limit = <<n>>]

Matches(doc, q) ==
  /\ \A i \in DOMAIN q.eq : doc.data["recipient"] = q.eq[i]
  /\ \A i \in DOMAIN q.ge : doc.data["timestamp"] >= q.ge[i]
  /\ \A i \in DOMAIN q.le : doc.data["timestamp"] <= q.le[i]

\* d comes before e in descending order of timestamp (then of document id)
Before(d, e) ==
  \/ d.data["timestamp"] > e.data["timestamp"]
  \/ d.data["timestamp"] = e.data["timestamp"] /\ d.id > e.id

First(docs) == CHOOSE d \in docs : \A e \in docs \ {d} : Before(d, e)

RECURSIVE SortDesc(_)
SortDesc(docs) ==
  IF docs = {} THEN <<>>
  ELSE <<First(docs)>> \o SortDesc(docs \ {First(docs)})

Take(s, limit) ==
  IF limit = <<>> \/ Len(s) <= limit[1] THEN s ELSE SubSeq(s, 1, limit[1])

\* list(query.stream()): the documents or the store's fault
StoreStream(st, user_id, q, fault) ==
  IF fault.raised
  THEN [exc |-> "StoreError", msg |-> fault.msg, docs |-> <<>>]
  ELSE [exc |-> "", msg |-> <<>>,
        docs |-> Take(SortDesc({d \in st[UserKey(user_id)] : Matches(d, q)}),
                      q.limit)]

(***************************************************************************)
(* PaymentHandler                                                          *)
(***************************************************************************)
MsgAddFailed == << <<":x: Error al registrar el pago. Por favor intenta de nuevo.">> >>
MsgQueryFailed == << <<":x: Error al consultar los pagos. Por favor intenta de nuevo.">> >>
MsgIndexRequired ==
  << <<":x: Se requiere crear un índice en Firebase para esta consulta. ",
        "Por favor, contacta al administrador del sistema.">> >>
MsgNoPayments == << <<"No se encontraron pagos para los criterios especificados.">> >>

\* the date of the payment: the parsed params['date'] if it is given and
\* parses, else the current date
ResolveDate(params, t) ==
  IF "date" \in DOMAIN params /\ params["date"] # <<>>
  THEN OrElse(parse_relative_date(params["date"], t), get_current_date(t))
  ELSE get_current_date(t)

\* the payment_data dict
PaymentData(params, current_date) ==
  [recipient |-> params["recipient"],
   amount |-> params["amount"],
   metadata |-> Get(params, "metadata", ""),
   date |-> Strftime(current_date),
   timestamp |-> current_date]

\* prepare_payment_data reading recipient and amount with params.get: a
\* missing field is filled in instead of raising KeyError
PrepareWithDefaults(command, t) ==
  IF "params" \notin DOMAIN command
  THEN [exc |-> "KeyError", data |-> EmptyDict]
  ELSE [exc |-> "",
        data |-> PaymentData(
                   [k \in DOMAIN command["params"] \cup {"recipient", "amount"} |->
                      IF k \in DOMAIN command["params"] THEN command["params"][k]
                      ELSE IF k = "recipient" THEN "" ELSE IntVal(0)],
                   ResolveDate(command["params"], t))]

\* prepare_payment_data: [exc, data]
prepare_payment_data(command, t) ==
  IF "params" \notin DOMAIN command
  THEN [exc |-> "KeyError", data |-> EmptyDict]
  ELSE IF "recipient" \notin DOMAIN command["params"]
          \/ "amount" \notin DOMAIN command["params"]
  THEN [exc |-> "KeyError", data |-> EmptyDict]
  ELSE [exc |-> "",
        data |-> PaymentData(command["params"], ResolveDate(command["params"], t))]

\* the optional lines of the confirmation
WithConcept(text, metadata) ==
  IF metadata # "" THEN Append(text, <<":memo: Concepto: ", metadata>>) ELSE text

WithDate(text, date) ==
  IF date # <<>> THEN Append(text, <<":date: Fecha: ">> \o date) ELSE text

\* the confirmation add_payment builds after the write: [exc, text]
ConfirmationText(payment_data, amount) ==
  IF amount.exc # "" THEN [exc |-> amount.exc, text |-> <<>>]
  ELSE [exc |-> "",
        text |-> WithDate(
                   WithConcept(
                     << <<":white_check_mark: Pago registrado:">>,
                        <<":moneybag: ">> \o amount.str
                          \o <<" COP a ", payment_data["recipient"]>> >>,
                     payment_data["metadata"]),
                   payment_data["date"])]

AddConfirmation(payment_data) ==
  ConfirmationText(payment_data, FormatComma(payment_data["amount"]))

\* add_payment after payment_ref.set: the except clause or the confirmation
AfterSet(written, confirmation) ==
  IF written.exc # "" \/ confirmation.exc # ""
  THEN [response |-> MsgAddFailed, store |-> written.store]
  ELSE [response |-> confirmation.text, store |-> written.store]

\* add_payment after prepare_payment_data
AfterPrepare(st, user_id, prepared, fault, id) ==
  IF prepared.exc # ""
  THEN [response |-> MsgAddFailed, store |-> st]
  ELSE AfterSet(StoreSet(st, user_id, id, prepared.data, fault),
                AddConfirmation(prepared.data))

\* add_payment: [response, store]
add_payment(st, user_id, command, t, fault, id) ==
  AfterPrepare(st, user_id, prepare_payment_data(command, t), fault, id)

\* payment.to_dict() if hasattr(payment, 'to_dict') else payment
ToDict(payment) == IF "data" \in DOMAIN payment THEN payment["data"] ELSE payment

WithNote(text, metadata) ==
  IF metadata # "" THEN AddStr(text, <<" (", metadata, ")">>) ELSE text

WithDay(text, date) ==
  IF date # <<>> THEN AddStr(text, <<" :date: ">> \o date) ELSE text

\* the line of one payment, added to the response
PaymentLine(response, p, shown) ==
  AddNewline(
    WithDay(
      WithNote(
        AddStr(response,
               <<":moneybag: ">> \o shown
                 \o <<" COP a ", Get(p, "recipient", "No especificado")>>),
        Get(p, "metadata", "")),
      Get(p, "date", <<>>)))

TotalLine(response, total) ==
  AddStr(AddNewline(response),
         <<":moneybag: Total: ">> \o GroupedInt(total) \o <<" COP">>)

\* the loop of format_payment_response from payment i on: [exc, text]
RECURSIVE FormatLoop(_, _, _, _)
FormatLoop(payments, i, response, total) ==
  IF i > Len(payments)
  THEN [exc |-> "", text |-> TotalLine(response, total)]
  ELSE IF Get(ToDict(payments[i]), "amount", IntVal(0)).type # "int"
  THEN [exc |-> "ValueError", text |-> <<>>]
  ELSE FormatLoop(payments, i + 1,
                  PaymentLine(response, ToDict(payments[i]),
                              GroupedInt(Get(ToDict(payments[i]), "amount", IntVal(0)).int)),
                  total + Get(ToDict(payments[i]), "amount", IntVal(0)).int)

\* format_payment_response without its test for no payments
FormatWithoutEmptyCase(payments) ==
  FormatLoop(payments, 1, << <<":bar_chart: Historial de pagos:">>, <<>>, <<>> >>, 0)

\* format_payment_response: [exc, text]
format_payment_response(payments) ==
  IF payments = <<>> THEN [exc |-> "", text |-> MsgNoPayments]
  ELSE FormatLoop(payments, 1, << <<":bar_chart: Historial de pagos:">>, <<>>, <<>> >>, 0)

\* "needle in str(e)" for a message kept as a sequence of parts
Contains(msg, needle) == \E i \in DOMAIN msg : msg[i] = needle

\* the except clause of query_payments: [exc, response]
QueryFailure(msg) ==
  IF Contains(msg, "The query requires an index")
  THEN IF Contains(msg, "You can create it here: ")
       THEN [exc |-> "", response |-> MsgIndexRequired]
       ELSE [exc |-> "IndexError", response |-> <<>>]
  ELSE [exc |-> "", response |-> MsgQueryFailed]

\* where timestamp >= start, where timestamp <= end, order_by timestamp
RangeQuery(range) ==
  OrderByTimestampDesc(WhereTimestampLe(WhereTimestampGe(BaseQuery, range[1]), range[2]))

\* the query with both predicates sent to the store when both filters are given
PlanQueryCompound(params, t) ==
  IF "recipient" \in DOMAIN params /\ "time_frame" \notin DOMAIN params
  THEN OrderByTimestampDesc(WhereRecipientEq(BaseQuery, params["recipient"]))
  ELSE IF "time_frame" \in DOMAIN params /\ "recipient" \notin DOMAIN params
  THEN RangeQuery(get_date_range(params["time_frame"], t))
  ELSE IF "time_frame" \in DOMAIN params /\ "recipient" \in DOMAIN params
  THEN WhereRecipientEq(RangeQuery(get_date_range(params["time_frame"], t)),
                        params["recipient"])
  ELSE Limit(OrderByTimestampDesc(BaseQuery), RecentLimit)

\* the query query_payments builds for params
PlanQuery(params, t) ==
  IF "recipient" \in DOMAIN params /\ "time_frame" \notin DOMAIN params
  THEN OrderByTimestampDesc(WhereRecipientEq(BaseQuery, params["recipient"]))
  ELSE IF "time_frame" \in DOMAIN params /\ "recipient" \notin DOMAIN params
  THEN RangeQuery(get_date_range(params["time_frame"], t))
  ELSE IF "time_frame" \in DOMAIN params /\ "recipient" \in DOMAIN params
  THEN RangeQuery(get_date_range(params["time_frame"], t))
  ELSE Limit(OrderByTimestampDesc(BaseQuery), RecentLimit)

\* no in-memory filter
FilterNothing(payments, params) == payments

\* the in-memory filter of the branch with both filters
FilterInMemory(payments, params) ==
  IF "time_frame" \in DOMAIN params /\ "recipient" \in DOMAIN params
  THEN SelectSeq(payments, LAMBDA p : p.data["recipient"] = params["recipient"])
  ELSE payments

\* query_payments once the payments are formatted
AfterFormat(query, payments, formatted, failure) ==
  IF formatted.exc # ""
  THEN [exc |-> failure.exc, response |-> failure.response,
        queries |-> <<query>>, listed |-> Some(payments)]
  ELSE [exc |-> "", response |-> formatted.text,
        queries |-> <<query>>, listed |-> Some(payments)]

\* query_payments once the store has answered
AfterStream(query, streamed, payments) ==
  IF streamed.exc # ""
  THEN [exc |-> QueryFailure(streamed.msg).exc,
        response |-> QueryFailure(streamed.msg).response,
        queries |-> <<query>>, listed |-> None]
  ELSE AfterFormat(query, payments, format_payment_response(payments),
                   QueryFailure(<<"Cannot specify ',' with 's'.">>))

\* query_payments with its query built
RunQuery(st, user_id, params, query, streamed) ==
  AfterStream(query, streamed, FilterInMemory(streamed.docs, params))

\* query_payments: [exc, response, queries, listed]
\* queries: the queries sent to the store; listed: the sequence formatted
query_payments(st, user_id, params, t, fault) ==
  RunQuery(st, user_id, params, PlanQuery(params, t),
           StoreStream(st, user_id, PlanQuery(params, t), fault))

(***************************************************************************)
(* Bot                                                                     *)
(***************************************************************************)
MsgUnsupported == << <<":x: Comando no soportado">> >>
MsgNotUnderstood == << <<":x: No pude entender el comando. Por favor intenta de nuevo.">> >>
MsgError == << <<":x: Ocurrió un error. Por favor intenta de nuevo.">> >>

\* parse_message: the translator's JSON, or None when the call or
\* json.loads raised
parse_message(translation) ==
  IF translation.failed THEN None ELSE Some(translation.json)

\* what handle_command does: [exc, response, store, queries, listed]
Added(r) ==
  [exc |-> "", response |-> r.response, store |-> r.store,
   queries |-> <<>>, listed |-> None]

Queried(st, r) ==
  [exc |-> r.exc, response |-> r.response, store |-> st,
   queries |-> r.queries, listed |-> r.listed]

Raised(st, e) ==
  [exc |-> e, response |-> <<>>, store |-> st, queries |-> <<>>, listed |-> None]

Unsupported(st) ==
  [exc |-> "", response |-> MsgUnsupported, store |-> st,
   queries |-> <<>>, listed |-> None]

\* handle_command
handle_command(st, command, user_id, t, fault, id) ==
  IF "command" \notin DOMAIN command THEN Raised(st, "KeyError")
  ELSE IF command["command"] = "add_payment"
  THEN Added(add_payment(st, user_id, command, t, fault, id))
  ELSE IF command["command"] = "query_payments"
  THEN IF "params" \notin DOMAIN command THEN Raised(st, "KeyError")
       ELSE Queried(st, query_payments(st, user_id, command["params"], t, fault))
  ELSE Unsupported(st)

\* handle_message with no except clause: an exception of handle_command
\* leaves the handler and nothing is replied
ReplyUnguarded(st, command, r) ==
  IF ~command.some \/ command.val = EmptyDict
  THEN [replies |-> <<MsgNotUnderstood>>, raised |-> FALSE, store |-> st,
        queries |-> <<>>, listed |-> None]
  ELSE IF r.exc # ""
  THEN [replies |-> <<>>, raised |-> TRUE, store |-> r.store,
        queries |-> r.queries, listed |-> r.listed]
  ELSE [replies |-> <<r.response>>, raised |-> FALSE, store |-> r.store,
        queries |-> r.queries, listed |-> r.listed]

\* handle_message once the message is parsed: [replies, raised, store, queries, listed]
\* replies: the texts passed to reply_text; raised: an exception left the handler
Reply(st, command, r) ==
  IF ~command.some \/ command.val = EmptyDict
  THEN [replies |-> <<MsgNotUnderstood>>, raised |-> FALSE, store |-> st,
        queries |-> <<>>, listed |-> None]
  ELSE IF r.exc # ""
  THEN [replies |-> <<MsgError>>, raised |-> FALSE, store |-> r.store,
        queries |-> r.queries, listed |-> r.listed]
  ELSE [replies |-> <<r.response>>, raised |-> FALSE, store |-> r.store,
        queries |-> r.queries, listed |-> r.listed]

\* handle_message
handle_message(st, translation, user_id, t, fault, id) ==
  Reply(st, parse_message(translation),
        handle_command(st, parse_message(translation).val, user_id, t, fault, id))

\* the text start_command replies with
WelcomeText ==
  <<<<>>,
    <<":robot: ¡Hola! Soy tu asistente de negocios.">>,
    <<>>,
    <<"Puedes pedirme:">>,
    <<"- Registrar pagos (incluso de días anteriores)">>,
    <<"- Consultar pagos realizados">>,
    <<"- Registrar deudas">>,
    <<"- Consultar deudas pendientes">>,
    <<>>,
    <<"Ejemplos:">>,
    <<":writing_hand: \"Pagué 50 mil pesos a Juan ayer por el almuerzo\"">>,
    <<":bar_chart: \"Dame los pagos a Simon de esta semana\"">>,
    <<":moneybag: \"Le debo 100 mil pesos a María por el mercado\"">>,
    <<":memo: \"Qué deudas tengo pendientes\"">>,
    <<"        ">> >>

(***************************************************************************)
(* The bot as a state machine: the clock runs, and updates are handled one *)
(* at a time (the application is built without concurrent updates, and a   *)
(* handler awaits nothing but its own reply).                              *)
(*   now    the clock's instant                                            *)
(*   store  the documents of each user's partition                         *)
(*   last   the handler whose reply is on its way: its inputs and what it  *)
(*          did; [op |-> "none"] between two updates                       *)
(***************************************************************************)
Users == {1001, 1002}
Recipients == {"Juan", "Simon"}

\* a dict of the entries that are given
Entry(k, choice) == IF choice.some THEN k :> choice.val ELSE EmptyDict

RecipientChoices == {None} \cup {Some(r) : r \in Recipients}
AmountChoices == {None, Some(IntVal(30000)), Some(StrVal("50 mil"))}
MetadataChoices == {Some("almuerzo")}
DateChoices == {None}
TimeFrameChoices == {None, Some("today"), Some("yesterday"), Some("decade")}

AddParams ==
  {Entry("recipient", r) @@ Entry("amount", a) @@ Entry("metadata", m) @@ Entry("date", d) :
     r \in RecipientChoices, a \in AmountChoices, m \in MetadataChoices, d \in DateChoices}

QueryParams ==
  {Entry("recipient", r) @@ Entry("time_frame", f) :
     r \in RecipientChoices, f \in TimeFrameChoices}

\* what the translator may answer
Commands ==
  {EmptyDict, "params" :> EmptyDict}
  \cup {"command" :> k : k \in {"add_payment", "query_payments"}}
  \cup {("command" :> "add_payment") @@ ("params" :> p) : p \in AddParams}
  \cup {("command" :> "query_payments") @@ ("params" :> p) : p \in QueryParams}
  \cup {("command" :> "add_debt") @@ ("params" :> p) :
          p \in {("debtor" :> "Juan") @@ ("amount" :> IntVal(30000))}}
  \cup {("command" :> k) @@ ("params" :> EmptyDict) : k \in {"query_debts", "delete_payments"}}

Translations ==
  {[failed |-> TRUE, json |-> EmptyDict]}
  \cup {[failed |-> FALSE, json |-> c] : c \in Commands}

Faults ==
  {NoFault,
   [raised |-> TRUE, msg |-> <<"503 ", "The service is currently unavailable.">>],
   [raised |-> TRUE,
    msg |-> <<"400 ", "The query requires an index", ". ", "You can create it here: ",
              "https://console.firebase.google.com/project/p/firestore/indexes?create_composite=x">>],
   [raised |-> TRUE,
    msg |-> <<"400 ", "The query requires an index",
              ". That index is currently building and cannot be used yet. See its status here: ",
              "https://console.firebase.google.com/project/p/firestore/indexes">>]}

AllDocs(st) == UNION {st[k] : k \in DOMAIN st}
\* the id of document(): a fresh one. The store's ids are opaque; documents
\* are numbered here in the order they are created, MaxDocs at most.
FreeIds(st) ==
  IF Cardinality(AllDocs(st)) < MaxDocs THEN {Cardinality(AllDocs(st)) + 1} ELSE {}

\* the message makes its handler call the store (one call at most)
CallsStore(translation, t) ==
  /\ ~translation.failed
  /\ "command" \in DOMAIN translation.json
  /\ \/ /\ translation.json["command"] = "add_payment"
        /\ prepare_payment_data(translation.json, t).exc = ""
     \/ /\ translation.json["command"] = "query_payments"
        /\ "params" \in DOMAIN translation.json

\* the message makes its handler write a document
Writes(translation, t, fault) ==
  /\ CallsStore(translation, t)
  /\ translation.json["command"] = "add_payment"
  /\ ~fault.raised

Init ==
  /\ now = FirstNow
  /\ store = [k \in {UserKey(u) : u \in Users} |-> {}]
  /\ last = [op |-> "none"]

\* the clock runs on
Tick ==
  /\ now + TickMinutes <= FirstNow + MaxElapsed
  /\ now' = now + TickMinutes
  /\ UNCHANGED <<store, last>>

\* the record of a run of handle_message: its inputs, the store before and
\* after, and what the handler did
Handled(user_id, translation, fault, t, st, r) ==
  [op |-> "handle_message", user |-> user_id, translation |-> translation,
   fault |-> fault, at |-> t, before |-> st, after |-> r.store,
   replies |-> r.replies, raised |-> r.raised, queries |-> r.queries,
   listed |-> r.listed]

\* the handler of text messages runs for one message of user user_id
HandleMessage(user_id, translation, fault, id) ==
  /\ last.op = "none"
  /\ last' = Handled(user_id, translation, fault, now, store,
                      handle_message(store, translation, user_id, now, fault, id))
  /\ store' = last'.after
  /\ UNCHANGED now

\* the handler of /start runs
StartCommand(user_id) ==
  /\ last.op = "none"
  /\ last' = [op |-> "start_command", user |-> user_id, replies |-> <<WelcomeText>>]
  /\ UNCHANGED <<now, store>>

\* the reply is delivered and the handler returns
Delivered ==
  /\ last.op # "none"
  /\ last' = [op |-> "none"]
  /\ UNCHANGED <<now, store>>

Next ==
  \/ Tick
  \/ /\ last.op = "none"
     /\ \E user_id \in Users, translation \in Translations :
          \E fault \in IF CallsStore(translation, now) THEN Faults ELSE {NoFault} :
            \E id \in IF Writes(translation, now, fault) THEN FreeIds(store) ELSE {0} :
              HandleMessage(user_id, translation, fault, id)
  \/ \E user_id \in Users : StartCommand(user_id)
  \/ Delivered

Spec == Init /\ [][Next]_vars

(***************************************************************************)
(* DateHandler and prepare_payment_data on their own: the clock runs       *)
(* minute by minute across midnight, and last records one call.            *)
(***************************************************************************)
TimeFrames == {"today", "yesterday", "week", "month", "year", "decade"}

DateTokens ==
  {<<>>, Hoy, Ayer, Anteayer, Manana,
   <<"H","O","Y">>, <<"A","y","e","r">>, <<"A","N","T","E","A","Y","E","R">>,
   <<"M","a","Ñ","a","n","a">>, <<" ","a","y","e","r","\n">>,
   <<"l","u","n","e","s">>, <<"a","y","e","r","e","s">>, <<" ">>}

PrepareCommands ==
  {("command" :> "add_payment")
     @@ ("params" :> (("recipient" :> "Juan") @@ ("amount" :> a)
                        @@ Entry("metadata", m) @@ Entry("date", d))) :
     a \in {IntVal(50000)},
     m \in {None, Some("almuerzo")},
     d \in {None} \cup {Some(k) : k \in DateTokens}}

DateInit ==
  /\ now = FirstNow
  /\ store = [k \in {UserKey(u) : u \in Users} |-> {}]
  /\ last = [op |-> "none"]

DateTick ==
  /\ now + 1 <= FirstNow + MaxDateElapsed
  /\ now' = now + 1
  /\ UNCHANGED <<store, last>>

\* the call returns to its caller
Returned ==
  /\ last.op # "none"
  /\ last' = [op |-> "none"]
  /\ UNCHANGED <<now, store>>

GetDateRange(time_frame) ==
  /\ last.op = "none"
  /\ last' = [op |-> "get_date_range", time_frame |-> time_frame, at |-> now,
              range |-> get_date_range(time_frame, now)]
  /\ UNCHANGED <<now, store>>

PreparePaymentData(command) ==
  /\ last.op = "none"
  /\ last' = [op |-> "prepare_payment_data", command |-> command, at |-> now,
              result |-> prepare_payment_data(command, now)]
  /\ UNCHANGED <<now, store>>

DateNext ==
  \/ DateTick
  \/ \E time_frame \in TimeFrames : GetDateRange(time_frame)
  \/ \E command \in PrepareCommands : PreparePaymentData(command)
  \/ Returned

DateSpec == DateInit /\ [][DateNext]_vars

(***************************************************************************)
(* format_payment_response on its own: last records one call.              *)
(***************************************************************************)
FormatDate == <<"2","0","2","4","-","0","2","-","2","9">>

\* what a sequence to format may hold: documents of the store and plain dicts
FormatPayments ==
  {[id |-> 1,
    data |-> [recipient |-> "Juan", amount |-> IntVal(30000), metadata |-> "almuerzo",
              date |-> FormatDate, timestamp |-> FirstNow]],
   [id |-> 2,
    data |-> [recipient |-> "Juan", amount |-> IntVal(20000), metadata |-> "",
              date |-> FormatDate, timestamp |-> FirstNow]],
   [id |-> 3,
    data |-> [recipient |-> "Simon", amount |-> IntVal(1234567), metadata |-> "arriendo",
              date |-> FormatDate, timestamp |-> FirstNow]],
   [id |-> 4,
    data |-> [recipient |-> "Simon", amount |-> StrVal("50 mil"), metadata |-> "",
              date |-> FormatDate, timestamp |-> FirstNow]],
   [recipient |-> "Juan", amount |-> IntVal(999)],
   EmptyDict}

FormatInit ==
  /\ now = FirstNow
  /\ store = [k \in {UserKey(u) : u \in Users} |-> {}]
  /\ last = [op |-> "none"]

FormatPaymentResponse(payments) ==
  /\ last.op = "none"
  /\ last' = [op |-> "format_payment_response", payments |-> payments,
              result |-> format_payment_response(payments)]
  /\ UNCHANGED <<now, store>>

FormatNext ==
  \/ \E n \in 0..MaxListed : \E payments \in [1..n -> FormatPayments] :
       FormatPaymentResponse(payments)
  \/ Returned

FormatSpec == FormatInit /\ [][FormatNext]_vars

(***************************************************************************)
(* Properties of handle_message (specification Spec)                       *)
(***************************************************************************)
HandledMessage == last.op = "handle_message"

\* the translator answered a command of kind k
IsCommand(k) ==
  /\ HandledMessage
  /\ ~last.translation.failed
  /\ "command" \in DOMAIN last.translation.json
  /\ last.translation.json["command"] = k

HasParams == "params" \in DOMAIN last.translation.json
Params == last.translation.json["params"]

\* a query_payments command with its filter
IsQuery == IsCommand("query_payments") /\ HasParams

CommandKinds == {"add_payment", "add_debt", "query_payments", "query_debts"}

Compound(q) == q.eq # <<>> /\ (q.ge # <<>> \/ q.le # <<>>)

\* C1: a query_payments command sends exactly one query to the store, of the
\* shape the decision table gives: recipient only -> equality on recipient,
\* descending, no range, no limit; time_frame (with or without recipient) ->
\* the inclusive range on timestamp only, descending, no limit; neither ->
\* no predicate, descending, limit 50. No query sent to the store carries
\* both the equality and the range predicate.
QueryShapeFollowsTable ==
  /\ HandledMessage => \A i \in DOMAIN last.queries : ~Compound(last.queries[i])
  /\ IsQuery =>
       /\ Len(last.queries) = 1
       /\ last.queries[1].order = <<"timestamp DESCENDING">>
       /\ IF "time_frame" \in DOMAIN Params
          THEN /\ last.queries[1].eq = <<>>
               /\ last.queries[1].ge =
                    <<Instant(get_date_range(Params["time_frame"], last.at)[1])>>
               /\ last.queries[1].le =
                    <<Instant(get_date_range(Params["time_frame"], last.at)[2])>>
               /\ last.queries[1].limit = <<>>
          ELSE IF "recipient" \in DOMAIN Params
          THEN /\ last.queries[1].eq = <<Params["recipient"]>>
               /\ last.queries[1].ge = <<>>
               /\ last.queries[1].le = <<>>
               /\ last.queries[1].limit = <<>>
          ELSE /\ last.queries[1].eq = <<>>
               /\ last.queries[1].ge = <<>>
               /\ last.queries[1].le = <<>>
               /\ last.queries[1].limit = <<50>>

\* a query with both filters was handled, and the store held a document of
\* the user when it was
QueryShapeWitness ==
  /\ IsQuery
  /\ {"recipient", "time_frame"} \subseteq DOMAIN Params
  /\ last.before[UserKey(last.user)] # {}
  /\ Len(last.queries) = 1
  /\ last.queries[1].eq = <<>>
  /\ last.queries[1].ge # <<>>

\* the documents of the user, when the message was handled, that the filter
\* of the handled query asks for
InRange ==
  {d \in last.before[UserKey(last.user)] :
     /\ Instant(get_date_range(Params["time_frame"], last.at)[1]) <= d.data["timestamp"]
     /\ d.data["timestamp"] <= Instant(get_date_range(Params["time_frame"], last.at)[2])}

Wanted == {d \in InRange : d.data["recipient"] = Params["recipient"]}

\* what the range query alone gives
RangeResult ==
  StoreStream(last.before, last.user,
              RangeQuery(get_date_range(Params["time_frame"], last.at)), NoFault).docs

IsBothFilters ==
  /\ IsQuery
  /\ {"recipient", "time_frame"} \subseteq DOMAIN Params
  /\ ~last.fault.raised

\* C2: with both recipient and time_frame, the records listed are exactly the
\* documents of the user's partition whose timestamp is in the resolved range
\* and whose recipient equals the filter's, in the order of the descending
\* range query (a subsequence of its result), and they are what the reply shows.
CombinedFilterListsExactly ==
  IsBothFilters =>
    /\ last.listed.some
    /\ {last.listed.val[i] : i \in DOMAIN last.listed.val} = Wanted
    /\ Len(last.listed.val) = Cardinality(Wanted)
    /\ \A i, j \in DOMAIN last.listed.val :
         i < j => last.listed.val[i].data["timestamp"] >= last.listed.val[j].data["timestamp"]
    /\ last.listed.val = SelectSeq(RangeResult, LAMBDA d : d \in Wanted)
    /\ format_payment_response(last.listed.val).exc = ""
         => last.replies = <<format_payment_response(last.listed.val).text>>

\* the range query gave two documents and the in-memory filter kept one
CombinedFilterWitness ==
  /\ IsBothFilters
  /\ Len(RangeResult) = 2
  /\ Len(last.listed.val) = 1
  /\ Len(last.replies[1]) = 5

\* C3: a query the store fails with a fault that says the query requires an
\* index is answered with the message naming the administrator, never with an
\* exception, and is sent once; any other fault gives the generic message.
IndexFaultSurfaced ==
  (IsQuery /\ last.fault.raised) =>
    /\ Len(last.queries) = 1
    /\ last.replies =
         <<IF Contains(last.fault.msg, "The query requires an index")
           THEN MsgIndexRequired ELSE MsgQueryFailed>>

\* C4: handle_message replies exactly once and no exception leaves it,
\* whatever the translator answers and whatever fault the store raises.
OneReplyNeverRaises ==
  HandledMessage =>
    /\ Len(last.replies) = 1
    /\ last.replies[1] # <<>>
    /\ ~last.raised

\* an exception left handle_command and was answered with the error message
OneReplyWitness ==
  /\ HandledMessage
  /\ last.replies = <<MsgError>>
  /\ last.fault.raised

Confirmed == last.replies[1][1] = <<":white_check_mark: Pago registrado:">>

OneAdded ==
  \E d \in last.after[UserKey(last.user)] \ last.before[UserKey(last.user)] :
    last.after = [last.before EXCEPT ![UserKey(last.user)] = @ \cup {d}]

\* C5: when add_payment answers with the failure message no record was added,
\* and when it answers with the confirmation exactly one record was added to
\* the user's partition and nothing else changed.
AddResponseReflectsStore ==
  IsCommand("add_payment") =>
    /\ last.replies = <<MsgAddFailed>> => last.after = last.before
    /\ Confirmed => OneAdded

LacksRequired ==
  \/ ~HasParams
  \/ "recipient" \notin DOMAIN Params
  \/ "amount" \notin DOMAIN Params

\* C6 as stated: an add command without recipient or amount is answered like
\* a failed translation, with "No pude entender el comando", and writes nothing.
MissingFieldIsNotUnderstood ==
  (IsCommand("add_payment") /\ HasParams /\ LacksRequired) =>
    /\ last.replies = <<MsgNotUnderstood>>
    /\ last.after = last.before

\* C6 as amended: an add command without recipient or amount is answered with
\* the failure message of add_payment, "Error al registrar el pago", and
\* writes nothing and queries nothing.
MissingFieldIsAddFailure ==
  (IsCommand("add_payment") /\ LacksRequired) =>
    /\ last.replies = <<MsgAddFailed>>
    /\ last.after = last.before
    /\ last.queries = <<>>

\* an add command with an amount and no recipient was handled while the store
\* had room for its record
MissingFieldWitness ==
  /\ IsCommand("add_payment")
  /\ HasParams
  /\ "recipient" \notin DOMAIN Params
  /\ "amount" \in DOMAIN Params
  /\ Cardinality(AllDocs(last.before)) < MaxDocs
  /\ last.replies = <<MsgAddFailed>>

\* C7: each of the four command kinds is interpreted: "Comando no soportado"
\* is the answer only to a kind outside the four (and then nothing is written
\* or queried), an add_debt command adds a record and a query_debts command
\* queries the store.
AllKindsInterpreted ==
  /\ (HandledMessage /\ last.replies = <<MsgUnsupported>>) =>
       /\ last.translation.json["command"] \notin CommandKinds
       /\ last.after = last.before
       /\ last.queries = <<>>
  /\ IsCommand("add_debt") => last.after # last.before
  /\ IsCommand("query_debts") => Len(last.queries) = 1

(***************************************************************************)
(* Properties of format_payment_response (specification FormatSpec)        *)
(***************************************************************************)
AmountOf(payment) == Get(ToDict(payment), "amount", IntVal(0))

RECURSIVE SumAmounts(_)
SumAmounts(payments) ==
  IF payments = <<>> THEN 0
  ELSE AmountOf(Head(payments)).int + SumAmounts(Tail(payments))

IntegerAmounts(payments) ==
  \A i \in DOMAIN payments : AmountOf(payments[i]).type = "int"

\* the line of a record: amount, counterparty, note in parentheses if any,
\* date if any
ExpectedLine(payment) ==
  <<":moneybag: ">> \o GroupedInt(AmountOf(payment).int)
    \o <<" COP a ", Get(ToDict(payment), "recipient", "No especificado")>>
    \o (IF Get(ToDict(payment), "metadata", "") # ""
        THEN <<" (", Get(ToDict(payment), "metadata", ""), ")">> ELSE <<>>)
    \o (IF Get(ToDict(payment), "date", <<>>) # <<>>
        THEN <<" :date: ">> \o Get(ToDict(payment), "date", <<>>) ELSE <<>>)

\* C8: format_payment_response gives for no record exactly the "nothing
\* found" message and no total; for records (of integer amounts) a header,
\* one line per record in the order given, and a total line with the sum of
\* all the amounts, thousands grouped.
FormatAsSpecified ==
  last.op = "format_payment_response" =>
    /\ last.payments = <<>> =>
         /\ last.result.exc = ""
         /\ last.result.text =
              << <<"No se encontraron pagos para los criterios especificados.">> >>
    /\ (last.payments # <<>> /\ IntegerAmounts(last.payments)) =>
         /\ last.result.exc = ""
         /\ Len(last.result.text) = Len(last.payments) + 4
         /\ last.result.text[1] = <<":bar_chart: Historial de pagos:">>
         /\ last.result.text[2] = <<>>
         /\ \A i \in DOMAIN last.payments :
              last.result.text[i + 2] = ExpectedLine(last.payments[i])
         /\ last.result.text[Len(last.payments) + 3] = <<>>
         /\ last.result.text[Len(last.payments) + 4] =
              <<":moneybag: Total: ">> \o GroupedInt(SumAmounts(last.payments)) \o <<" COP">>
    /\ (Len(last.payments) = 2
        /\ AmountOf(last.payments[1]) = IntVal(30000)
        /\ AmountOf(last.payments[2]) = IntVal(20000)) =>
         last.result.text[6] = <<":moneybag: Total: ", "5","0",",","0","0","0", " COP">>

\* the records of 30000 and 20000 to Juan were formatted, the later one first
FormatWitness ==
  /\ last.op = "format_payment_response"
  /\ Len(last.payments) = 2
  /\ AmountOf(last.payments[1]) = IntVal(30000)
  /\ AmountOf(last.payments[2]) = IntVal(20000)
  /\ last.result.text[3] =
       <<":moneybag: ", "3","0",",","0","0","0", " COP a ", "Juan", " (", "almuerzo", ")",
         " :date: ", "2","0","2","4","-","0","2","-","2","9">>
  /\ last.result.text[6] = <<":moneybag: Total: ", "5","0",",","0","0","0", " COP">>

(***************************************************************************)
(* Properties of DateHandler and prepare_payment_data (specification       *)
(* DateSpec)                                                               *)
(***************************************************************************)
\* the civil day of instant t in the fixed zone, UTC-5
LocalDay(t) == (t + BogotaOffset) \div MinutesPerDay

HoyForms == {Hoy, <<"H","O","Y">>}
AyerForms == {Ayer, <<"A","y","e","r">>, <<" ","a","y","e","r","\n">>}
AnteayerForms == {Anteayer, <<"A","N","T","E","A","Y","E","R">>}
MananaForms == {Manana, <<"M","a","Ñ","a","n","a">>}

\* the days the date field of params moves the record from now
ExpectedDays(params) ==
  IF "date" \notin DOMAIN params THEN 0
  ELSE IF params["date"] \in AyerForms THEN -1
  ELSE IF params["date"] \in AnteayerForms THEN -2
  ELSE IF params["date"] \in MananaForms THEN 1
  ELSE 0

PreparedParams == last.command["params"]
Prepared == last.result.data

\* C9: the record's instant is now for hoy, now - 1 day for ayer, now - 2
\* days for anteayer, now + 1 day for mañana (in any case), and now for an
\* absent, empty or unrecognized token; its date string is the calendar date
\* of that instant in the fixed zone; its amount is the command's.
PreparedAsSpecified ==
  last.op = "prepare_payment_data" =>
    /\ last.result.exc = ""
    /\ Instant(Prepared["timestamp"]) =
         last.at + ExpectedDays(PreparedParams) * MinutesPerDay
    /\ Prepared["date"] = IsoDate(CivilFromDays(LocalDay(Instant(Prepared["timestamp"]))))
    /\ Prepared["amount"] = PreparedParams["amount"]
    /\ Prepared["recipient"] = PreparedParams["recipient"]

\* just after midnight of 1 March 2024, "Ayer" gave the leap day
PreparedWitness ==
  /\ last.op = "prepare_payment_data"
  /\ "date" \in DOMAIN PreparedParams
  /\ PreparedParams["date"] = <<"A","y","e","r">>
  /\ Instant(Prepared["timestamp"]) = last.at - MinutesPerDay
  /\ Prepared["date"] = <<"2","0","2","4","-","0","2","-","2","9">>
  /\ Prepared["amount"] = IntVal(50000)

\* the instants around the call that a range is probed with
Probes == (last.at - 2 * MinutesPerDay)..(last.at + MinutesPerDay)

Within(t, range) == Instant(range[1]) <= t /\ t <= Instant(range[2])

Rolling(days) ==
  /\ Instant(last.range[1]) = last.at - days * MinutesPerDay
  /\ Instant(last.range[2]) = last.at

\* C10: for "today" an instant lies in the range exactly when its civil date
\* in the fixed zone is today's, for "yesterday" when it is the day before's;
\* week, month and year are the rolling windows of 7, 30 and 365 days up to
\* now, and any other time frame is the month's; start <= end always.
RangeAsSpecified ==
  last.op = "get_date_range" =>
    /\ Instant(last.range[1]) <= Instant(last.range[2])
    /\ CASE last.time_frame = "today" ->
              \A t \in Probes : Within(t, last.range) <=> LocalDay(t) = LocalDay(last.at)
         [] last.time_frame = "yesterday" ->
              \A t \in Probes : Within(t, last.range) <=> LocalDay(t) = LocalDay(last.at) - 1
         [] last.time_frame = "week" -> Rolling(7)
         [] last.time_frame = "year" -> Rolling(365)
         [] OTHER -> Rolling(30)

=============================================================================
